---------------------------- MODULE Spec2Model ----------------------------
(***************************************************************************)
(* Verification model of icepack's rheology kernel (src/physics/           *)
(* viscosity.cpp) and of its regularization functionals (include/icepack/  *)
(* inverse/regularization.hpp).                                            *)
(*                                                                         *)
(* Real numbers are kept exact.  Rationals are numerator/denominator       *)
(* pairs, a square root is kept by its radicand (Surd), and the result of  *)
(* std::pow(x, -1/3) is kept by its cube (CubeForm).  Orderings and        *)
(* equalities of such numbers are decided by cross-multiplication, so none *)
(* of the checked properties rests on rounding.                            *)
(***************************************************************************)
EXTENDS Integers, Sequences, FiniteSets

VARIABLES
  rcall,   \* rheology: the call in progress
  rret,    \* rheology: its result
  alpha,   \* the smoothing length both regularizers were constructed with
  sgL,     \* SquareGradient::L
  sgM,     \* SquareGradient::M, the discretization's mass matrix
  tvA,     \* storage of the operator A of the latest TotalVariation::filter
  first,   \* the first call made on the regularizers, with its result
  cur,     \* the latest call made on the regularizers, with its result
  pc,      \* SquareGradient::filter, step by step: where the call is
  fcall,   \* its arguments
  step,    \* the solver's iteration count
  residual,\* the residual the solver last checked, in units of the tolerance
  conv,    \* what SolverControl last answered
  solves,  \* how many solves the call has started
  fret     \* what the call gave its caller

vars == <<rcall, rret, alpha, sgL, sgM, tvA, first, cur,
          pc, fcall, step, residual, conv, solves, fret>>
regvars == <<alpha, sgL, sgM, tvA, first, cur>>
solvars == <<pc, fcall, step, residual, conv, solves, fret>>

(***************************************************************************)
(* Bounds of the model                                                     *)
(***************************************************************************)
\* strain-rate components range over -MaxEps..MaxEps
MaxEps == 2
\* ice thickness ranges over 1..MaxH
MaxH == 2
\* radicand numerators of scalar strain rates range over 0..MaxS
MaxS == 4
\* field coefficients range over -MaxU..MaxU
MaxU == 1
\* the smoothing length ranges over 1..MaxAlpha
MaxAlpha == 2

(***************************************************************************)
(* Exact arithmetic helpers                                                *)
(***************************************************************************)
Abs(x) == IF x < 0 THEN -x ELSE x

\* Euclid's algorithm on the naturals
Euclid[a \in Nat, b \in Nat] == IF b = 0 THEN a ELSE Euclid[b, a % b]

GCD(a, b) == Euclid[Abs(a), Abs(b)]

\* the rational n/d (d > 0) in lowest terms
Rat(n, d) ==
  LET g == GCD(Abs(n), d) IN
  IF g = 0 THEN [n |-> 0, d |-> 1] ELSE [n |-> n \div g, d |-> d \div g]

\* sqrt(n/d), kept by its radicand
Surd(n, d) == [sq |-> Rat(n, d)]

SurdLess(s1, s2) == s1.sq.n * s2.sq.d < s2.sq.n * s1.sq.d

(***************************************************************************)
(* Temperatures are in millikelvin                                         *)
(***************************************************************************)
transition_temperature == 263215
Q_cold == 60
Q_warm == 139

Temperatures == {250000, 263214, 263215, 263216, 270000}

\* rate_factor(T) = A0 * exp(-Q / (ideal_gas * T)); the prefactor and the
\* activation energy are kept as the pair the code selected, the
\* exponential is not evaluated.
rate_factor_le(temperature) ==
  LET cold == (temperature <= transition_temperature)
      A0 == IF cold THEN "A0_cold" ELSE "A0_warm"
      Q == IF cold THEN Q_cold ELSE Q_warm
  IN [A0 |-> A0, Q |-> Q, T |-> temperature]

rate_factor(temperature) ==
  LET cold == (temperature < transition_temperature)
      A0 == IF cold THEN "A0_cold" ELSE "A0_warm"
      Q == IF cold THEN Q_cold ELSE Q_warm
  IN [A0 |-> A0, Q |-> Q, T |-> temperature]

(***************************************************************************)
(* CubeForm [A, e, c]: the positive real v with v^3 = A^e * c, where A is  *)
(* a rate factor (a positive real) and c a positive rational.              *)
(***************************************************************************)
\* std::pow(A * x, k/3) for a positive rational x and k in {-1, 1}
PowThird(A, x, k) ==
  [A |-> A, e |-> k, c |-> IF k < 0 THEN Rat(x.d, x.n) ELSE Rat(x.n, x.d)]

\* v * (p/q) for positive integers p, q
CubeScale(v, p, q) ==
  [A |-> v.A, e |-> v.e, c |-> Rat(v.c.n * p * p * p, v.c.d * q * q * q)]

\* v1 > v2 for two CubeForms over the same power of the same rate factor
\* (x |-> x^3 is increasing)
CubeGreater(v1, v2) ==
  /\ v1.A = v2.A
  /\ v1.e = v2.e
  /\ v1.c.n * v2.c.d > v2.c.n * v1.c.d

NonFinite == [finite |-> FALSE]

viscosity_pos(temperature, strain_rate) ==
  LET A == rate_factor(temperature)
      s2 == strain_rate.sq
  IN IF s2.n = 0 THEN NonFinite
     ELSE [finite |-> TRUE, v |-> CubeScale(PowThird(A, s2, 1), 1, 2)]

\* std::pow(A * strain_rate * strain_rate, -1.0/3) / 2; at strain_rate = 0
\* the power is a division by zero
viscosity(temperature, strain_rate) ==
  LET A == rate_factor(temperature)
      s2 == strain_rate.sq
  IN IF s2.n = 0 THEN NonFinite
     ELSE [finite |-> TRUE, v |-> CubeScale(PowThird(A, s2, -1), 1, 2)]

(***************************************************************************)
(* Symmetric tensors of dimension 2.  A rank-2 tensor is a function on     *)
(* index pairs, a rank-4 tensor a function on index quadruples; both carry *)
(* a common positive denominator d.                                        *)
(***************************************************************************)
Idx == {1, 2}
Idx2 == Idx \X Idx
Idx4 == Idx \X Idx \X Idx \X Idx

Sym(xx, yy, xy) ==
  [p \in Idx2 |-> IF p = <<1, 1>> THEN xx ELSE IF p = <<2, 2>> THEN yy ELSE xy]

Delta(i, j) == IF i = j THEN 1 ELSE 0

\* trace of a rank-2 tensor
first_invariant(t) == t[<<1, 1>>] + t[<<2, 2>>]

\* operator* of two symmetric rank-2 tensors: the double contraction
ScalarProduct(a, b) ==
  a[<<1, 1>>] * b[<<1, 1>>] + a[<<1, 2>>] * b[<<1, 2>>]
    + a[<<2, 1>>] * b[<<2, 1>>] + a[<<2, 2>>] * b[<<2, 2>>]

outer_product(a, b) == [q \in Idx4 |-> a[<<q[1], q[2]>>] * b[<<q[3], q[4]>>]]

\* the double contraction of a rank-4 with a rank-2 tensor
Contract(t4, t2) ==
  [p \in Idx2 |->
     t4[<<p[1], p[2], 1, 1>>] * t2[<<1, 1>>] + t4[<<p[1], p[2], 1, 2>>] * t2[<<1, 2>>]
       + t4[<<p[1], p[2], 2, 1>>] * t2[<<2, 1>>] + t4[<<p[1], p[2], 2, 2>>] * t2[<<2, 2>>]]

\* unit_symmetric_tensor<2>()
I == Sym(1, 1, 0)

\* identity_tensor<2>(): (delta_ik delta_jl + delta_il delta_jk) / 2
II ==
  [n |-> [q \in Idx4 |-> Delta(q[1], q[3]) * Delta(q[2], q[4])
                           + Delta(q[1], q[4]) * Delta(q[2], q[3])],
   d |-> 2]

C_twice_identity ==
  [n |-> [q \in Idx4 |-> 2 * II.n[q] + II.d * outer_product(I, I)[q]], d |-> II.d]

\* C = II + outer_product(I, I)
C == [n |-> [q \in Idx4 |-> II.n[q] + II.d * outer_product(I, I)[q]], d |-> II.d]

\* the effective strain rate sqrt((eps * eps + tr * tr) / 2)
EffectiveStrainRate(eps) ==
  LET tr == first_invariant(eps) IN Surd(ScalarProduct(eps, eps) + tr * tr, 2)

\* SSA::nonlinear: 2 * nu * C, kept as the scalar 2 * nu and the tensor C
nonlinear(T, h, eps) ==
  LET eps_e == EffectiveStrainRate(eps)
      visc == viscosity(T, eps_e)
  IN IF ~visc.finite THEN NonFinite
     ELSE LET nu == CubeScale(visc.v, h, 1)
          IN [finite |-> TRUE, scal |-> CubeScale(nu, 2, 1), n |-> C.n, d |-> C.d]

\* The derivative at delta = 0 of the stress
\*   nonlinear(T, h, eps + delta * eps_hat) : (eps + delta * eps_hat),
\* by the chain rule through the statements of SSA::nonlinear.
\* With Q2 = eps * eps + tr * tr, eps_e = sqrt(Q2 / 2) has the relative
\* derivative dQ2 / (2 Q2), so nu, a multiple of (A eps_e^2)^(-1/3), has the
\* relative derivative -dQ2 / (3 Q2).
nonlinear_derivative(T, h, eps, eps_hat) ==
  LET nl == nonlinear(T, h, eps)
      tr == first_invariant(eps)
      tr_hat == first_invariant(eps_hat)
      Q2 == ScalarProduct(eps, eps) + tr * tr
      dQ2 == 2 * (ScalarProduct(eps, eps_hat) + tr * tr_hat)
  IN IF ~nl.finite THEN NonFinite
     ELSE [finite |-> TRUE, scal |-> nl.scal,
           n |-> [p \in Idx2 |-> 3 * Q2 * Contract(nl.n, eps_hat)[p]
                                   - dQ2 * Contract(nl.n, eps)[p]],
           d |-> 3 * Q2 * nl.d]

linearized_no_trace(T, h, eps) ==
  LET tr == first_invariant(eps)
      eps_e == EffectiveStrainRate(eps)
      Q2 == ScalarProduct(eps, eps) + tr * tr
      G == eps
      visc == viscosity(T, eps_e)
  IN IF ~visc.finite THEN NonFinite
     ELSE LET nu == CubeScale(visc.v, h, 1)
          IN [finite |-> TRUE, scal |-> CubeScale(nu, 2, 1),
              n |-> [q \in Idx4 |-> 3 * Q2 * C.n[q] - 2 * C.d * outer_product(G, G)[q]],
              d |-> 3 * Q2 * C.d]

\* SSA::linearized: 2 * nu * (C - outer_product(gamma, gamma) / 3.0) with
\* gamma = (eps + tr * I) / eps_e, so that outer_product(gamma, gamma) is
\* outer_product(G, G) / (Q2 / 2) for G = eps + tr * I, Q2 = 2 * eps_e^2
linearized(T, h, eps) ==
  LET tr == first_invariant(eps)
      eps_e == EffectiveStrainRate(eps)
      Q2 == ScalarProduct(eps, eps) + tr * tr
      G == [p \in Idx2 |-> eps[p] + tr * I[p]]
      visc == viscosity(T, eps_e)
  IN IF ~visc.finite THEN NonFinite
     ELSE LET nu == CubeScale(visc.v, h, 1)
          IN [finite |-> TRUE, scal |-> CubeScale(nu, 2, 1),
              n |-> [q \in Idx4 |-> 3 * Q2 * C.n[q] - 2 * C.d * outer_product(G, G)[q]],
              d |-> 3 * Q2 * C.d]

(***************************************************************************)
(* The rheology kernel as a machine: each step is one call of one of the   *)
(* pure functions, on inputs from the bounded sets.                        *)
(***************************************************************************)
StrainRates == {Surd(n, d) : n \in 0..MaxS, d \in {1, 2}}
Components == -MaxEps..MaxEps
SymTensors == {Sym(xx, yy, xy) : xx \in Components, yy \in Components, xy \in Components}
Directions == {Sym(xx, yy, xy) : xx \in {-1, 0, 1}, yy \in {-1, 0, 1}, xy \in {-1, 0, 1}}
Thicknesses == 1..MaxH
TensorTemperatures == {250000, 263215, 270000}

NoCall == [op |-> "none"]

InitRheology ==
  /\ rcall = NoCall
  /\ rret = NoCall
  /\ alpha = 0
  /\ sgL = NoCall
  /\ sgM = NoCall
  /\ tvA = NoCall
  /\ first = NoCall
  /\ cur = NoCall
  /\ pc = "idle"
  /\ fcall = NoCall
  /\ step = 0
  /\ residual = 0
  /\ conv = "none"
  /\ solves = 0
  /\ fret = NoCall

CallRateFactor ==
  /\ rcall = NoCall
  /\ \E T \in Temperatures :
    /\ rcall' = [op |-> "rate_factor", T |-> T]
    /\ rret' = rate_factor(T)

CallViscosity ==
  /\ rcall = NoCall
  /\ \E T \in Temperatures, s1 \in StrainRates, s2 \in StrainRates :
    /\ rcall' = [op |-> "viscosity", T |-> T, s1 |-> s1, s2 |-> s2]
    /\ rret' = [v1 |-> viscosity(T, s1), v2 |-> viscosity(T, s2)]

CallNonlinear ==
  /\ rcall = NoCall
  /\ \E T \in TensorTemperatures, h \in Thicknesses, eps \in SymTensors :
    /\ rcall' = [op |-> "nonlinear", T |-> T, h |-> h, eps |-> eps]
    /\ rret' = nonlinear(T, h, eps)

CallLinearized ==
  /\ rcall = NoCall
  /\ \E T \in TensorTemperatures, h \in Thicknesses, eps \in SymTensors,
     eps_hat \in Directions :
    /\ rcall' = [op |-> "linearized", T |-> T, h |-> h, eps |-> eps,
                 eps_hat |-> eps_hat]
    /\ rret' = [lin |-> linearized(T, h, eps),
                dnl |-> nonlinear_derivative(T, h, eps, eps_hat)]

\* the caller takes the result; the kernel keeps nothing between calls
ReturnRheology ==
  /\ rcall # NoCall
  /\ rcall' = NoCall
  /\ rret' = NoCall

NextRheology ==
  /\ UNCHANGED regvars
  /\ UNCHANGED solvars
  /\ \/ ReturnRheology
     \/ CallRateFactor
     \/ CallViscosity
     \/ CallNonlinear
     \/ CallLinearized

SpecRheology == InitRheology /\ [][NextRheology]_vars


(***************************************************************************)
(* Properties of the rheology kernel                                       *)
(***************************************************************************)
SquareNorm(eps) == ScalarProduct(eps, eps)

NonZero(eps) == \E p \in Idx2 : eps[p] # 0

\* C3: rate_factor takes both constants from the cold branch for every
\* temperature strictly below 263.215 K and both from the warm branch for
\* every temperature at or above it, 263.215 K itself included.
C3_BranchSelection ==
  rcall.op = "rate_factor" =>
    /\ rret.T = rcall.T
    /\ rcall.T < 263215 => (rret.A0 = "A0_cold" /\ rret.Q = 60)
    /\ rcall.T >= 263215 => (rret.A0 = "A0_warm" /\ rret.Q = 139)

C3_Witness ==
  /\ rcall.op = "rate_factor"
  /\ rcall.T = 263215
  /\ rret.A0 = "A0_warm"
  /\ rret.Q = 139

\* C4: for every temperature and all strain rates 0 < s1 < s2,
\* viscosity(T, s1) > viscosity(T, s2).
C4_ViscosityDecreasing ==
  (/\ rcall.op = "viscosity"
   /\ rcall.s1.sq.n > 0
   /\ SurdLess(rcall.s1, rcall.s2)) =>
    /\ rret.v1.finite
    /\ rret.v2.finite
    /\ CubeGreater(rret.v1.v, rret.v2.v)

C4_Witness ==
  /\ rcall.op = "viscosity"
  /\ rcall.s1.sq.n > 0
  /\ SurdLess(rcall.s1, rcall.s2)
  /\ rcall.s1.sq.d = 2
  /\ rret.v1.finite
  /\ rret.v2.finite

\* the scalar 2 * nu of the claims: nu = h * (A * eps_e^2)^(-1/3) / 2, so
\* (2 nu)^3 = h^3 / (A * eps_e^2) = 2 h^3 / (A * (eps:eps + tr^2))
TwoNuIs(scal, T, h, eps) ==
  LET tr == eps[<<1, 1>>] + eps[<<2, 2>>] IN
  /\ scal.A = rate_factor(T)
  /\ scal.e = -1
  /\ scal.c.n * (SquareNorm(eps) + tr * tr) = scal.c.d * 2 * h * h * h

\* C1 as stated: SSA::nonlinear is 2 nu (2 I4 + I2 (x) I2), and its
\* contraction with eps on both sides is 2 nu (2 |eps|^2 + trace(eps)^2).
C1_Original ==
  (rcall.op = "nonlinear" /\ NonZero(rcall.eps)) =>
    LET eps == rcall.eps
        tr == eps[<<1, 1>>] + eps[<<2, 2>>]
    IN /\ rret.finite
       /\ TwoNuIs(rret.scal, rcall.T, rcall.h, eps)
       /\ \A q \in Idx4 :
            rret.n[q] = rret.d * (Delta(q[1], q[3]) * Delta(q[2], q[4])
                                    + Delta(q[1], q[4]) * Delta(q[2], q[3])
                                    + Delta(q[1], q[2]) * Delta(q[3], q[4]))
       /\ ScalarProduct(eps, Contract(rret.n, eps))
            = rret.d * (2 * SquareNorm(eps) + tr * tr)

\* C1 (amended): for every symmetric eps with eps_e > 0, every h > 0 and
\* every T, SSA::nonlinear is 2 nu (I4 + I2 (x) I2) with I4 the symmetric
\* rank-4 identity and nu = h * viscosity(T, eps_e); it maps eps to
\* 2 nu (eps + trace(eps) I2), and the contraction of that with eps is
\* 2 nu (|eps|^2 + trace(eps)^2).
C1_Dissipation ==
  (rcall.op = "nonlinear" /\ NonZero(rcall.eps)) =>
    LET eps == rcall.eps
        tr == eps[<<1, 1>>] + eps[<<2, 2>>]
    IN /\ rret.finite
       /\ TwoNuIs(rret.scal, rcall.T, rcall.h, eps)
       /\ \A q \in Idx4 :
            2 * rret.n[q] = rret.d * (Delta(q[1], q[3]) * Delta(q[2], q[4])
                                        + Delta(q[1], q[4]) * Delta(q[2], q[3])
                                        + 2 * Delta(q[1], q[2]) * Delta(q[3], q[4]))
       /\ \A p \in Idx2 :
            Contract(rret.n, eps)[p] = rret.d * (eps[p] + tr * Delta(p[1], p[2]))
       /\ ScalarProduct(eps, Contract(rret.n, eps))
            = rret.d * (SquareNorm(eps) + tr * tr)

C1_Witness ==
  /\ rcall.op = "nonlinear"
  /\ rcall.eps = Sym(1, -2, 1)
  /\ rcall.h = 2
  /\ rret.finite
  /\ ScalarProduct(rcall.eps, Contract(rret.n, rcall.eps)) = rret.d * 8

\* C2: for every symmetric eps with eps_e > 0, every h > 0, every T and
\* every direction eps_hat, SSA::linearized(T, h, eps) : eps_hat is the
\* derivative at delta = 0 of
\* SSA::nonlinear(T, h, eps + delta eps_hat) : (eps + delta eps_hat), and
\* its scalar factor is the 2 nu of SSA::nonlinear.
C2_Tangent ==
  (rcall.op = "linearized" /\ NonZero(rcall.eps)) =>
    /\ rret.lin.finite
    /\ rret.dnl.finite
    /\ TwoNuIs(rret.lin.scal, rcall.T, rcall.h, rcall.eps)
    /\ rret.lin.scal = rret.dnl.scal
    /\ \A p \in Idx2 :
         Contract(rret.lin.n, rcall.eps_hat)[p] * rret.dnl.d
           = rret.dnl.n[p] * rret.lin.d

\* a direction along which the viscosity itself changes: the derivative is
\* not just C : eps_hat
C2_Witness ==
  /\ rcall.op = "linearized"
  /\ NonZero(rcall.eps)
  /\ rret.lin.finite
  /\ rret.dnl.finite
  /\ ScalarProduct(rcall.eps, rcall.eps_hat)
       + first_invariant(rcall.eps) * first_invariant(rcall.eps_hat) # 0
  /\ \E p \in Idx2 :
       Contract(rret.lin.n, rcall.eps_hat)[p] * C.d
         # Contract(C.n, rcall.eps_hat)[p] * rret.lin.d


(***************************************************************************)
(* The discretization the regularizers work on: the unit square cut into   *)
(* two triangles with linear shape functions, nodes 1 = (0,0), 2 = (1,0),  *)
(* 3 = (0,1), 4 = (1,1), and the three-point edge-midpoint quadrature.     *)
(* Integrals are in units of 1/24: each JxW is 4, shape values are kept    *)
(* doubled.  There are no hanging nodes or boundary constraints.           *)
(***************************************************************************)
Dofs == 1..4
Cells == {1, 2}
LocalDofs == 1..3
QPoints == 1..3

local_dof_indices(cell) == IF cell = 1 THEN <<1, 2, 3>> ELSE <<2, 4, 3>>

\* fe_values[ex].gradient(i, q)
shape_grad(cell, i, q) ==
  IF cell = 1 THEN <<(<<-1, -1>>), (<<1, 0>>), (<<0, 1>>)>>[i]
  ELSE <<(<<0, -1>>), (<<1, 1>>), (<<-1, 0>>)>>[i]

\* twice fe_values[ex].value(i, q): quadrature point q is the midpoint of
\* the edge opposite to local node q
shape_value2(cell, i, q) == IF i = q THEN 0 ELSE 1

\* fe_values.JxW(q)
JxW(cell, q) == 4

Dot(a, b) == a[1] * b[1] + a[2] * b[2]

\* the sum of the values of a function with a finite domain
RECURSIVE Sum(_)
Sum(f) ==
  IF DOMAIN f = {} THEN 0
  ELSE LET x == CHOOSE y \in DOMAIN f : TRUE
       IN f[x] + Sum([y \in DOMAIN f \ {x} |-> f[y]])

Fields == [Dofs -> -MaxU..MaxU]
Alphas == 1..MaxAlpha

\* fe_values.get_function_gradients(u.get_coefficients(), du_values), at q
get_function_gradients(u, cell, q) ==
  LET g(k) == Sum([i \in LocalDofs |->
                u[local_dof_indices(cell)[i]] * shape_grad(cell, i, q)[k]])
  IN <<g(1), g(2)>>

\* constraints.distribute_local_to_global of integer element matrices
\* cm(cell) into a global matrix, without constraints
Assemble(cm(_)) ==
  [p \in Dofs \X Dofs |->
     Sum([cell \in Cells |->
       Sum([i \in LocalDofs |->
         Sum([j \in LocalDofs |->
           IF local_dof_indices(cell)[i] = p[1] /\ local_dof_indices(cell)[j] = p[2]
           THEN cm(cell)[<<i, j>>] ELSE 0])])])]

\* the mass matrix of the discretization
get_mass_matrix ==
  Assemble(LAMBDA cell :
    [e \in LocalDofs \X LocalDofs |->
       Sum([q \in QPoints |->
         (shape_value2(cell, e[1], q) * shape_value2(cell, e[2], q) * JxW(cell, q))
           \div 4])])

\* MatrixCreator::create_laplace_matrix with the coefficient function a
create_laplace_matrix(a) ==
  Assemble(LAMBDA cell :
    [e \in LocalDofs \X LocalDofs |->
       Sum([q \in QPoints |->
         a * Dot(shape_grad(cell, e[1], q), shape_grad(cell, e[2], q))
           * JxW(cell, q)])])

\* SparseMatrix::vmult
vmult(mat, u) == [i \in Dofs |-> Sum([j \in Dofs |-> mat[<<i, j>>] * u[j]])]

\* SparseMatrix::matrix_norm_square
matrix_norm_square(mat, u) == Sum([i \in Dofs |-> u[i] * vmult(mat, u)[i]])

(***************************************************************************)
(* An exact solve of the integer system mat x = f by Cramer's rule; the    *)
(* answer is the vector n / d in lowest terms.  It stands for the result   *)
(* of a converged conjugate-gradient solve, the tolerance taken as exact.  *)
(***************************************************************************)
\* Determinants are computed modulo two primes below 2^15.5 and recombined
\* by the Chinese remainder theorem, so that no intermediate product leaves
\* the 32-bit range; the result is exact while |det| < 46337 * 46327 / 2.

\* a * b - c * d modulo p, for a, b, c, d in 0..p-1
Cross(a, b, c, d, p) == (((a * b) % p) - ((c * d) % p)) % p

\* the determinant modulo p of the 3 x 3 block of mat on rows r, columns c
Det3Mod(mat, r, c, p) ==
  LET E(i, j) == mat[<<r[i], c[j]>>] % p
  IN (((E(1, 1) * Cross(E(2, 2), E(3, 3), E(2, 3), E(3, 2), p)) % p)
        - ((E(1, 2) * Cross(E(2, 1), E(3, 3), E(2, 3), E(3, 1), p)) % p)
        + ((E(1, 3) * Cross(E(2, 1), E(3, 2), E(2, 2), E(3, 1), p)) % p)) % p

\* the determinant of the 3 x 3 block of mat on the rows r and columns c
Det3At(mat, r, c) ==
  CHOOSE x \in {IF y > 1073327099 THEN y - 2146654199 ELSE y :
                  y \in {a1 + 46337 * (((a2 - a1) * 32429) % 46327) :
                           a1 \in {Det3Mod(mat, r, c, 46337)},
                           a2 \in {Det3Mod(mat, r, c, 46327)}}} : TRUE

\* the determinant modulo p of a matrix over Dofs, expanded along its first row
DetMod(mat, p) ==
  ((((mat[<<1, 1>>] % p) * Det3Mod(mat, <<2, 3, 4>>, <<2, 3, 4>>, p)) % p)
     - (((mat[<<1, 2>>] % p) * Det3Mod(mat, <<2, 3, 4>>, <<1, 3, 4>>, p)) % p)
     + (((mat[<<1, 3>>] % p) * Det3Mod(mat, <<2, 3, 4>>, <<1, 2, 4>>, p)) % p)
     - (((mat[<<1, 4>>] % p) * Det3Mod(mat, <<2, 3, 4>>, <<1, 2, 3>>, p)) % p)) % p

\* the determinant of a matrix over Dofs
Det(mat) ==
  CHOOSE x \in {IF y > 1073327099 THEN y - 2146654199 ELSE y :
                  y \in {a1 + 46337 * (((a2 - a1) * 32429) % 46327) :
                           a1 \in {DetMod(mat, 46337)},
                           a2 \in {DetMod(mat, 46327)}}} : TRUE

\* the greatest common divisor of the values of a function
RECURSIVE GCDOver(_)
GCDOver(f) ==
  IF DOMAIN f = {} THEN 0
  ELSE LET x == CHOOSE y \in DOMAIN f : TRUE
       IN GCD(Abs(f[x]), GCDOver([y \in DOMAIN f \ {x} |-> f[y]]))

\* the vector num / det in lowest terms, with a positive denominator
LowestTerms(det, num) ==
  LET sgn == IF det < 0 THEN -1 ELSE 1
  IN CHOOSE x \in {[n |-> [k \in Dofs |-> (sgn * num[k]) \div g], d |-> (sgn * det) \div g] :
                     g \in {GCD(GCD(det, num[1]), GCD(GCD(num[2], num[3]), num[4]))}} : TRUE

ExactSolve(mat, f) ==
  CHOOSE x \in {IF det = 0 THEN [singular |-> TRUE] ELSE LowestTerms(det, num) :
                  det \in {Det(mat)},
                  num \in {<<Det([p \in Dofs \X Dofs |-> IF p[2] = 1 THEN f[p[1]] ELSE mat[p]]),
                             Det([p \in Dofs \X Dofs |-> IF p[2] = 2 THEN f[p[1]] ELSE mat[p]]),
                             Det([p \in Dofs \X Dofs |-> IF p[2] = 3 THEN f[p[1]] ELSE mat[p]]),
                             Det([p \in Dofs \X Dofs |-> IF p[2] = 4 THEN f[p[1]] ELSE mat[p]])>>}} : TRUE

(***************************************************************************)
(* SquareGradient                                                          *)
(***************************************************************************)
\* the constructor: L is the Laplace matrix with coefficient alpha^2
SquareGradient_L(a) == create_laplace_matrix(a * a)

\* SquareGradient::operator(): 0.5 * L.matrix_norm_square(u), in units of 1/24
SquareGradient_value(matL, u) == Rat(matrix_norm_square(matL, u), 2)

\* SquareGradient::derivative
SquareGradient_derivative(matL, u) == vmult(matL, u)

SquareGradient_operator_L_only(matM, matL) == [p \in Dofs \X Dofs |-> 2 * matL[p]]

\* linear_operator(*M) + linear_operator(L)
SquareGradient_operator(matM, matL) == [p \in Dofs \X Dofs |-> matM[p] + matL[p]]

SquareGradient_filter_about_ref(matM, matL, u_ref, f) ==
  ExactSolve(SquareGradient_operator(matM, matL),
             [i \in Dofs |-> f[i] - vmult(matL, u_ref)[i]])

\* SquareGradient::filter when the solver converges; the first argument is
\* unnamed in the code and is not read
SquareGradient_filter(matM, matL, u_ref, f) ==
  ExactSolve(SquareGradient_operator(matM, matL), f)


(***************************************************************************)
(* TotalVariation.  With du = alpha * grad u (an integer vector on this    *)
(* discretization), dA = sqrt(du * du + 1) is a Surd.  A sum of terms      *)
(* c / (r * sqrt(r)) over radicands r is kept as the function r |-> c      *)
(* (SurdSum); an entry of the operator is [m, s], the number               *)
(* (m + sum of s[r] / (r * sqrt(r))) / 24.                                 *)
(***************************************************************************)
EmptySum == [r \in {} |-> 0]

SurdSumAdd(s1, s2) ==
  [r \in DOMAIN s1 \cup DOMAIN s2 |->
     (IF r \in DOMAIN s1 THEN s1[r] ELSE 0) + (IF r \in DOMAIN s2 THEN s2[r] ELSE 0)]

RECURSIVE SurdSumOver(_)
\* the SurdSum of the values of a function with a finite domain
SurdSumOver(f) ==
  IF DOMAIN f = {} THEN EmptySum
  ELSE LET x == CHOOSE y \in DOMAIN f : TRUE
       IN SurdSumAdd(f[x], SurdSumOver([y \in DOMAIN f \ {x} |-> f[y]]))

\* an operator entry [m, s]
NumAdd(x, y) == [m |-> x.m + y.m, s |-> SurdSumAdd(x.s, y.s)]

ZeroNum == [m |-> 0, s |-> EmptySum]

RECURSIVE NumSumOver(_)
\* the sum of the entries that are the values of a function
NumSumOver(f) ==
  IF DOMAIN f = {} THEN ZeroNum
  ELSE LET x == CHOOSE y \in DOMAIN f : TRUE
       IN NumAdd(f[x], NumSumOver([y \in DOMAIN f \ {x} |-> f[y]]))

\* per quadrature point: dx, du = alpha * du_values[q], dA = sqrt(du*du + 1)
TotalVariation_point(a, u, cell, q) ==
  LET g == get_function_gradients(u, cell, q)
      du == <<a * g[1], a * g[2]>>
  IN [dx |-> JxW(cell, q), du |-> du, dA |-> Surd(Dot(du, du) + 1, 1)]

TotalVariation_value_alpha_twice(a, u) ==
  [t \in Cells \X QPoints |->
     LET pt == TotalVariation_point(a * a, u, t[1], t[2])
     IN [root |-> pt.dA, minus |-> 1, dx |-> pt.dx]]

\* TotalVariation::operator(): the terms (sqrt(du*du + 1) - 1) * dx that
\* are added up, one per cell and quadrature point
TotalVariation_value(a, u) ==
  [t \in Cells \X QPoints |->
     LET pt == TotalVariation_point(a, u, t[1], t[2])
     IN [root |-> pt.dA, minus |-> 1, dx |-> pt.dx]]

\* TotalVariation::derivative: entry i is the sum of the terms
\* alpha * du * dphi / dA * dx, kept as r |-> c for c / sqrt(r)
TotalVariation_derivative(a, u) ==
  [gi \in Dofs |->
     SurdSumOver([t \in Cells \X QPoints |->
       LET pt == TotalVariation_point(a, u, t[1], t[2])
           c == Sum([i \in LocalDofs |->
                  IF local_dof_indices(t[1])[i] = gi
                  THEN a * Dot(pt.du, shape_grad(t[1], i, t[2])) * pt.dx ELSE 0])
       IN [r \in {pt.dA.sq.n} |-> c]])]

tau_unnormalized(pt) == [n |-> pt.du, over |-> Surd(1, 1)]

\* tau = du / dA
tau_of(pt) == [n |-> pt.du, over |-> pt.dA]

\* the contribution of quadrature point q to cell_matrix(i, j):
\* (cell_mass + alpha * alpha * cell_div_graph_normal) * dx
TotalVariation_entry(a, u, cell, q, i, j) ==
  LET pt == TotalVariation_point(a, u, cell, q)
      phi2_i == shape_value2(cell, i, q)
      phi2_j == shape_value2(cell, j, q)
      d_phi_i == shape_grad(cell, i, q)
      d_phi_j == shape_grad(cell, j, q)
      tau == tau_of(pt)
      t == tau.over.sq.n
      r == pt.dA.sq.n
      \* t * (d_phi_i * d_phi_j - (d_phi_i * tau) * (tau * d_phi_j))
      num == t * Dot(d_phi_i, d_phi_j) - Dot(d_phi_i, tau.n) * Dot(tau.n, d_phi_j)
  IN [m |-> (phi2_i * phi2_j * pt.dx) \div 4,
      s |-> [x \in {r} |-> a * a * num * (r \div t) * pt.dx]]

\* cell_matrix after the loops over q, i and j
TotalVariation_cell_matrix(a, u, cell) ==
  [e \in LocalDofs \X LocalDofs |->
     NumSumOver([q \in QPoints |-> TotalVariation_entry(a, u, cell, q, e[1], e[2])])]

ZeroMatrix == [p \in Dofs \X Dofs |-> ZeroNum]

InitialOperator_stale(storage) == IF storage = NoCall THEN ZeroMatrix ELSE storage

\* SparseMatrix<double> A(sparsity); A = 0: the operator starts from zero
\* whatever the storage held
InitialOperator(storage) == ZeroMatrix

\* distribute_local_to_global of every cell_matrix cm[cell] into A, then
\* compress
distribute_local_to_global(A0, cm) ==
  [p \in Dofs \X Dofs |->
     NumAdd(A0[p],
            NumSumOver([t \in {x \in Cells \X (LocalDofs \X LocalDofs) :
                                 /\ local_dof_indices(x[1])[x[2][1]] = p[1]
                                 /\ local_dof_indices(x[1])[x[2][2]] = p[2]}
                          |-> cm[t[1]][t[2]]]))]

\* linear_solve(A, v, f, constraints): the field v with A v = f, named by
\* the system it solves
linear_solve(mat, f) == [solves |-> mat, rhs |-> f]


(***************************************************************************)
(* The regularizers as a machine.  Both objects are constructed once, with *)
(* the same alpha; every step is one call of one const member function.    *)
(* A filter call ends with the field the solver converged to, or with the  *)
(* solver's failure and no field.                                          *)
(***************************************************************************)
Outcomes == {"ok", "NoConvergence"}

ZeroField == [i \in Dofs |-> 0]
FieldX == [i \in Dofs |-> IF i \in {2, 4} THEN 1 ELSE 0]
FieldStep == [i \in Dofs |-> IF i = 4 THEN 1 ELSE 0]
RefFields == {FieldX, FieldStep}

\* the dual field (M + L) u
Load(u) == [i \in Dofs |-> vmult(sgM, u)[i] + vmult(sgL, u)[i]]
UnitLoad == [i \in Dofs |-> IF i = 1 THEN 1 ELSE 0]

InitRegularizers ==
  /\ rcall = NoCall
  /\ rret = NoCall
  /\ alpha \in Alphas
  /\ sgL = SquareGradient_L(alpha)
  /\ sgM = get_mass_matrix
  /\ tvA = NoCall
  /\ first = NoCall
  /\ cur = NoCall
  /\ pc = "idle"
  /\ fcall = NoCall
  /\ step = 0
  /\ residual = 0
  /\ conv = "none"
  /\ solves = 0
  /\ fret = NoCall

\* a call c returned r and left newA in the operator storage
Returned(c, r, newA) ==
  /\ cur' = [call |-> c, ret |-> r]
  /\ first' = IF first = NoCall THEN [call |-> c, ret |-> r] ELSE first
  /\ tvA' = newA
  /\ UNCHANGED <<rcall, rret, alpha, sgL, sgM>>
  /\ UNCHANGED solvars

SGValue(u) ==
  Returned([op |-> "SquareGradient::value", u |-> u],
           SquareGradient_value(sgL, u), tvA)

SGDerivative(u) ==
  Returned([op |-> "SquareGradient::derivative", u |-> u],
           SquareGradient_derivative(sgL, u), tvA)

\* of is the field f was made from, when f is a load (M + L) of
SGFilter(u_ref, f, of, outcome) ==
  Returned([op |-> "SquareGradient::filter", u_ref |-> u_ref, f |-> f, of |-> of],
           IF outcome = "ok"
           THEN [status |-> "ok", field |-> SquareGradient_filter(sgM, sgL, u_ref, f)]
           ELSE [status |-> "NoConvergence"],
           tvA)

\* the call also reports SquareGradient's value of the same field
TVValue(u) ==
  Returned([op |-> "TotalVariation::value", u |-> u],
           [tv |-> TotalVariation_value(alpha, u),
            sg |-> SquareGradient_value(sgL, u)], tvA)

TVDerivative(u) ==
  Returned([op |-> "TotalVariation::derivative", u |-> u],
           TotalVariation_derivative(alpha, u), tvA)

\* the result carries, besides the field, the element matrices and the dA
\* and tau of every quadrature point of the call
TVFilter(u_ref, f, outcome) ==
  \E cells \in {[cell \in Cells |-> TotalVariation_cell_matrix(alpha, u_ref, cell)]},
     start \in {InitialOperator(tvA)} :
    \E op \in {distribute_local_to_global(start, cells)} :
      Returned([op |-> "TotalVariation::filter", u_ref |-> u_ref, f |-> f],
               IF outcome = "ok"
               THEN [status |-> "ok", field |-> linear_solve(op, f),
                     cell_matrix |-> cells,
                     dA |-> [t \in Cells \X QPoints |->
                               TotalVariation_point(alpha, u_ref, t[1], t[2]).dA],
                     tau |-> [t \in Cells \X QPoints |->
                                tau_of(TotalVariation_point(alpha, u_ref, t[1], t[2]))]]
               ELSE [status |-> "NoConvergence"],
               op)

\* any sequence of calls on the two objects, on a few fields
CallSGValue == \E u \in RefFields : SGValue(u)
CallSGDerivative == \E u \in RefFields : SGDerivative(u)
CallSGFilter ==
  \E u_ref \in RefFields, outcome \in Outcomes :
    \/ SGFilter(u_ref, Load(FieldX), FieldX, outcome)
    \/ SGFilter(u_ref, UnitLoad, NoCall, outcome)
CallTVValue == \E u \in RefFields : TVValue(u)
CallTVDerivative == \E u \in RefFields : TVDerivative(u)
CallTVFilter ==
  \E u_ref \in RefFields, f \in {Load(FieldX), UnitLoad},
     outcome \in Outcomes :
    TVFilter(u_ref, f, outcome)

NextRegularizers ==
  \/ CallSGValue
  \/ CallSGDerivative
  \/ CallSGFilter
  \/ CallTVValue
  \/ CallTVDerivative
  \/ CallTVFilter

SpecRegularizers == InitRegularizers /\ [][NextRegularizers]_vars

\* one call on freshly constructed objects, on every field of the bounds
Fresh == cur = NoCall

Reconstruct ==
  /\ ~Fresh
  /\ cur' = NoCall
  /\ first' = NoCall
  /\ tvA' = NoCall
  /\ UNCHANGED <<rcall, rret, alpha, sgL, sgM>>
  /\ UNCHANGED solvars

FirstSGValue == Fresh /\ \E u \in Fields : SGValue(u)
FirstSGDerivative == Fresh /\ \E u \in Fields : SGDerivative(u)
FirstSGFilter ==
  /\ Fresh
  /\ \E u_ref \in RefFields, u \in Fields, outcome \in Outcomes :
       SGFilter(u_ref, Load(u), u, outcome)
FirstTVValue == Fresh /\ \E u \in Fields : TVValue(u)
FirstTVDerivative == Fresh /\ \E u \in Fields : TVDerivative(u)
FirstTVFilter ==
  /\ Fresh
  /\ \E u_ref \in Fields, outcome \in Outcomes : TVFilter(u_ref, UnitLoad, outcome)

NextKernels ==
  \/ Reconstruct
  \/ FirstSGValue
  \/ FirstSGDerivative
  \/ FirstSGFilter
  \/ FirstTVValue
  \/ FirstTVDerivative
  \/ FirstTVFilter

SpecKernels == InitRegularizers /\ [][NextKernels]_vars


(***************************************************************************)
(* SquareGradient::filter step by step.  The call builds the operator,     *)
(* runs one SolverCG::solve under SolverControl(1000, 1.0e-10) and returns *)
(* u; it has no handler for the solver's exception.  Residuals are in      *)
(* units of the tolerance, and which residual an iteration reaches is left *)
(* open.                                                                   *)
(***************************************************************************)
max_steps == 1000
tolerance == 1

Residuals == {0, 1, 2}

\* SolverControl::check(step, check_value)
SolverCheck(n, r) ==
  IF r <= tolerance THEN "success"
  ELSE IF n >= max_steps THEN "failure"
  ELSE "iterate"

ZeroLoad == [i \in Dofs |-> 0]

\* lines 76-85, up to the solver's first check: u is created, the operator
\* is M + L, and the solve starts from the residual of u = 0
FilterEnter ==
  /\ pc = "idle"
  /\ \E f \in {Load(FieldX), UnitLoad, ZeroLoad}, r \in Residuals :
       /\ (r = 0) = (f = ZeroLoad)
       /\ fcall' = [op |-> "SquareGradient::filter", u_ref |-> FieldStep, f |-> f]
       /\ residual' = r
       /\ conv' = SolverCheck(0, r)
  /\ pc' = "solving"
  /\ step' = 0
  /\ solves' = solves + 1
  /\ fret' = NoCall
  /\ UNCHANGED <<rcall, rret>>
  /\ UNCHANGED regvars

\* one iteration of SolverCG::solve and the check that ends it
CGIterate ==
  /\ pc = "solving"
  /\ conv = "iterate"
  /\ step' = step + 1
  /\ \E r \in Residuals :
       /\ residual' = r
       /\ conv' = SolverCheck(step + 1, r)
  /\ UNCHANGED <<pc, fcall, solves, fret, rcall, rret>>
  /\ UNCHANGED regvars

filter_exit_always_returns(status, matM, matL, call) ==
  IF status = "success"
  THEN [status |-> "ok",
        field |-> SquareGradient_filter(matM, matL, call.u_ref, call.f)]
  ELSE [status |-> "ok", field |-> [unconverged |-> TRUE]]

\* how the call ends. SolverCG::solve returns when the last check was a
\* success and line 87 returns u; it throws SolverControl::NoConvergence
\* otherwise, which leaves filter at line 85 with no value
filter_exit(status, matM, matL, call) ==
  IF status = "success"
  THEN [status |-> "ok",
        field |-> SquareGradient_filter(matM, matL, call.u_ref, call.f)]
  ELSE [status |-> "NoConvergence"]

FilterExit ==
  /\ pc = "solving"
  /\ conv # "iterate"
  /\ fret' = filter_exit(conv, sgM, sgL, fcall)
  /\ pc' = IF fret'.status = "ok" THEN "returned" ELSE "failed"
  /\ UNCHANGED <<fcall, step, residual, conv, solves, rcall, rret>>
  /\ UNCHANGED regvars

\* the caller goes on to its next call
FilterNext ==
  /\ pc \in {"returned", "failed"}
  /\ pc' = "idle"
  /\ fcall' = NoCall
  /\ step' = 0
  /\ residual' = 0
  /\ conv' = "none"
  /\ solves' = 0
  /\ fret' = NoCall
  /\ UNCHANGED <<rcall, rret>>
  /\ UNCHANGED regvars

NextSolver ==
  \/ FilterEnter
  \/ CGIterate
  \/ FilterExit
  \/ FilterNext

\* the call runs to its end: nothing suspends the solver's loop
SpecSolver ==
  /\ InitRegularizers
  /\ [][NextSolver]_vars
  /\ WF_vars(CGIterate)
  /\ WF_vars(FilterExit)


(***************************************************************************)
(* Properties of the regularizers                                          *)
(***************************************************************************)
IsFilter(c) == c.op \in {"SquareGradient::filter", "TotalVariation::filter"}

\* the call of record x came back with a value
Completed(x) == x # NoCall /\ (IsFilter(x.call) => x.ret.status = "ok")

\* (M + L) v for the integer vector v
ApplyMPlusL(v) == [i \in Dofs |-> Sum([j \in Dofs |-> (sgM[<<i, j>>] + sgL[<<i, j>>]) * v[j]])]

\* C5: for every field u and every reference field, SquareGradient.filter
\* of the load (M + L) u returns u, and the returned field v satisfies
\* (M + L) v = f.
C5_RoundTrip ==
  (/\ Completed(cur)
   /\ cur.call.op = "SquareGradient::filter"
   /\ cur.call.of # NoCall) =>
    /\ cur.call.f = ApplyMPlusL(cur.call.of)
    /\ cur.ret.field = [n |-> cur.call.of, d |-> 1]
    /\ \A i \in Dofs : ApplyMPlusL(cur.ret.field.n)[i] = cur.ret.field.d * cur.call.f[i]

C5_Witness ==
  /\ Completed(cur)
  /\ cur.call.op = "SquareGradient::filter"
  /\ alpha = 2
  /\ cur.call.of = [i \in Dofs |-> IF i = 1 THEN -1 ELSE IF i = 4 THEN 1 ELSE 0]
  /\ cur.call.u_ref = FieldStep
  /\ cur.ret.field = [n |-> cur.call.of, d |-> 1]

\* C6: two SquareGradient.filter calls with the same dual field f return
\* the same field whatever their reference fields are.
C6_IgnoresReference ==
  (/\ Completed(first)
   /\ Completed(cur)
   /\ first.call.op = "SquareGradient::filter"
   /\ cur.call.op = "SquareGradient::filter"
   /\ first.call.f = cur.call.f) =>
    first.ret.field = cur.ret.field

C6_Witness ==
  /\ Completed(first)
  /\ Completed(cur)
  /\ first.call.op = "SquareGradient::filter"
  /\ cur.call.op = "SquareGradient::filter"
  /\ first.call.f = cur.call.f
  /\ first.call.f = UnitLoad
  /\ first.call.u_ref # cur.call.u_ref
  /\ first.ret.field = cur.ret.field

\* the gradient of the piecewise linear u on each triangle
GradOnCell(u, cell) ==
  IF cell = 1 THEN <<u[2] - u[1], u[3] - u[1]>> ELSE <<u[4] - u[3], u[4] - u[2]>>

\* C7: at every quadrature point the TotalVariation integrand
\* sqrt(alpha^2 |grad u|^2 + 1) - 1 is at least 0 and at most
\* 0.5 alpha^2 |grad u|^2, and the latter terms, with the same weights, add
\* up to SquareGradient.value(u); hence 0 <= TotalVariation.value(u) <=
\* SquareGradient.value(u).
C7_PseudoHuberBound ==
  (Completed(cur) /\ cur.call.op = "TotalVariation::value") =>
    LET u == cur.call.u
        x(t) == alpha * alpha * Dot(GradOnCell(u, t[1]), GradOnCell(u, t[1]))
    IN /\ \A t \in Cells \X QPoints :
            LET term == cur.ret.tv[t]
                r == term.root.sq
            IN /\ term.minus = 1
               /\ term.dx > 0
               /\ r.n = (x(t) + 1) * r.d
               /\ r.n >= r.d
               /\ 4 * r.n * r.d <= (x(t) + 2) * (x(t) + 2) * r.d * r.d
       /\ 2 * cur.ret.sg.n
            = cur.ret.sg.d * Sum([t \in Cells \X QPoints |-> x(t) * cur.ret.tv[t].dx])

C7_Witness ==
  /\ Completed(cur)
  /\ cur.call.op = "TotalVariation::value"
  /\ alpha = 2
  /\ cur.call.u = FieldStep
  /\ cur.ret.tv[<<2, 1>>].root = Surd(9, 1)
  /\ cur.ret.tv[<<1, 1>>].root = Surd(1, 1)
  /\ cur.ret.sg = Rat(48, 1)

\* C8: SquareGradient's L and M stay what construction made them; the
\* operator a TotalVariation.filter call leaves behind is the one assembled
\* from zero out of that call's u_ref alone; and a call that repeats the
\* first call made on the freshly constructed objects returns what that
\* first call returned.
C8_HistoryIndependence ==
  /\ sgL = SquareGradient_L(alpha)
  /\ sgM = get_mass_matrix
  /\ (Completed(cur) /\ cur.call.op = "TotalVariation::filter") =>
       /\ cur.ret.field.solves = tvA
       /\ tvA = distribute_local_to_global(ZeroMatrix,
                  [cell \in Cells |->
                     TotalVariation_cell_matrix(alpha, cur.call.u_ref, cell)])
  /\ (Completed(first) /\ Completed(cur) /\ first.call = cur.call) =>
       first.ret = cur.ret

\* a TotalVariation.filter call made after one with another reference field
C8_Witness ==
  /\ Completed(first)
  /\ Completed(cur)
  /\ first.call.op = "TotalVariation::filter"
  /\ first.call.u_ref = FieldX
  /\ cur.call.op = "TotalVariation::filter"
  /\ cur.call.u_ref = FieldStep
  /\ first.ret.field.solves # tvA
  /\ tvA = cur.ret.field.solves
  /\ tvA = distribute_local_to_global(ZeroMatrix,
             [cell \in Cells |-> TotalVariation_cell_matrix(alpha, FieldStep, cell)])


\* C9: a SquareGradient.filter call runs one solve of at most 1000
\* iterations; it returns a field only when the last residual checked is
\* within the tolerance, and that field solves (M + L) v = f; when the
\* 1000th iteration ends above the tolerance the call ends in the solver's
\* failure with no field, after that one solve; and every call that has
\* started ends in one of the two ways.
C9_Safety ==
  /\ step <= 1000
  /\ solves <= 1
  /\ pc = "failed" =>
       /\ fret = [status |-> "NoConvergence"]
       /\ step = 1000
       /\ residual > 1
       /\ solves = 1
  /\ pc = "returned" =>
       /\ fret.status = "ok"
       /\ residual <= 1
       /\ solves = 1
       /\ \A i \in Dofs : ApplyMPlusL(fret.field.n)[i] = fret.field.d * fcall.f[i]
  /\ pc \in {"idle", "solving"} => fret = NoCall

C9_FailFast ==
  /\ []C9_Safety
  /\ (pc = "solving") ~> (pc \in {"returned", "failed"})

C9_Witness ==
  /\ pc = "failed"
  /\ step = 1000
  /\ residual = 2
  /\ solves = 1
  /\ fret = [status |-> "NoConvergence"]

\* the matrix of the coefficients of 1 / (r sqrt(r)) in an element matrix,
\* divided by their greatest common divisor
DiffusionPart(cm, r) ==
  LET c == [e \in LocalDofs \X LocalDofs |->
              IF r \in DOMAIN cm[e].s THEN cm[e].s[r] ELSE 0]
      g == GCDOver(c)
  IN IF g = 0 THEN c ELSE [e \in LocalDofs \X LocalDofs |-> c[e] \div g]

MassPart(cm) == [e \in LocalDofs \X LocalDofs |-> cm[e].m]

Minor2(mat, i, j) == mat[<<i, i>>] * mat[<<j, j>>] - mat[<<i, j>>] * mat[<<j, i>>]

Det3(mat) == Det3At(mat, <<1, 2, 3>>, <<1, 2, 3>>)

\* a symmetric matrix is positive semi-definite iff all its principal
\* minors are >= 0, and positive definite iff the leading ones are > 0
PositiveSemiDefinite(mat) ==
  /\ \A i \in LocalDofs : mat[<<i, i>>] >= 0
  /\ \A i \in LocalDofs, j \in LocalDofs : i < j => Minor2(mat, i, j) >= 0
  /\ Det3(mat) >= 0

PositiveDefinite(mat) ==
  /\ mat[<<1, 1>>] > 0
  /\ Minor2(mat, 1, 2) > 0
  /\ Det3(mat) > 0

\* C10: in every TotalVariation.filter call, at every quadrature point
\* dA >= 1 and |tau| < 1, and every element matrix is symmetric, with a
\* positive definite mass part and a positive semi-definite diffusion part.
C10_NeverSingular ==
  (Completed(cur) /\ cur.call.op = "TotalVariation::filter") =>
    /\ \A t \in Cells \X QPoints :
         /\ cur.ret.dA[t].sq.n >= cur.ret.dA[t].sq.d
         /\ Dot(cur.ret.tau[t].n, cur.ret.tau[t].n) * cur.ret.tau[t].over.sq.d
              < cur.ret.tau[t].over.sq.n
    /\ \A cell \in Cells :
         LET cm == cur.ret.cell_matrix[cell] IN
         /\ \A e \in LocalDofs \X LocalDofs : cm[e] = cm[<<e[2], e[1]>>]
         /\ PositiveDefinite(MassPart(cm))
         /\ \A r \in DOMAIN cm[<<1, 1>>].s : PositiveSemiDefinite(DiffusionPart(cm, r))
         /\ \A e \in LocalDofs \X LocalDofs : DOMAIN cm[e].s = DOMAIN cm[<<1, 1>>].s

\* a reference field whose gradient differs between the two triangles and
\* makes the diffusion anisotropic
C10_Witness ==
  /\ Completed(cur)
  /\ cur.call.op = "TotalVariation::filter"
  /\ alpha = 2
  /\ cur.call.u_ref = [i \in Dofs |-> IF i = 2 THEN 1 ELSE IF i = 3 THEN -1 ELSE 0]
  /\ cur.ret.dA[<<1, 1>>] = Surd(9, 1)
  /\ cur.ret.dA[<<2, 1>>] = Surd(9, 1)
  /\ cur.ret.cell_matrix[1][<<2, 3>>].s[9] # 0
  /\ PositiveSemiDefinite(DiffusionPart(cur.ret.cell_matrix[1], 9))

=============================================================================
